---------------------------- MODULE Spec2Model ----------------------------
(***************************************************************************)
(* A model of src/dns.py: DynamicResolver, a Twisted DNS resolver that     *)
(* answers A / AAAA / A6 queries for hosts under configured domains from   *)
(* rows of a relational store, and hands alias values to an upstream       *)
(* resolver.                                                               *)
(*                                                                         *)
(* Strings (query names, stored values, addresses) are sequences of        *)
(* one-character strings, so that str.split, str.join and the standard     *)
(* library's ipaddress.ip_address / str(address) are computed character by *)
(* character, as the Python 3 interpreter computes them.                   *)
(***************************************************************************)
EXTENDS Integers, Sequences, FiniteSets

(***************************************************************************)
(* Bounds of the model.                                                    *)
(***************************************************************************)
\* Number of resolutions that can be in flight at once on one resolver.
MaxRes == 2
\* Longest query name enumerated by the one-at-a-time specification.
MaxNameLen == 5

(***************************************************************************)
(* str.split(sep) and sep.join(parts) on character sequences.              *)
(***************************************************************************)
RECURSIVE split(_, _)
split(s, sep) ==
  IF \A i \in 1..Len(s) : s[i] # sep
  THEN <<s>>
  ELSE LET k == CHOOSE i \in 1..Len(s) :
                  s[i] = sep /\ \A j \in 1..(i - 1) : s[j] # sep
       IN  <<SubSeq(s, 1, k - 1)>> \o split(SubSeq(s, k + 1, Len(s)), sep)

RECURSIVE join(_, _)
join(parts, sep) ==
  IF Len(parts) = 0 THEN <<>>
  ELSE IF Len(parts) = 1 THEN parts[1]
  ELSE parts[1] \o <<sep>> \o join(Tail(parts), sep)

\* labels[1:] of a Python list.
Rest(list) == IF Len(list) = 0 THEN <<>> ELSE Tail(list)

(***************************************************************************)
(* Digits: int(s, 10), int(s, 16), str(n) and '%x' % n.                    *)
(***************************************************************************)
DecChars == <<"0", "1", "2", "3", "4", "5", "6", "7", "8", "9">>
HexLower == DecChars \o <<"a", "b", "c", "d", "e", "f">>
HexUpper == DecChars \o <<"A", "B", "C", "D", "E", "F">>

IsDigit(c) == \E i \in 1..Len(DecChars) : DecChars[i] = c
IsHexDigit(c) == \E i \in 1..Len(HexLower) : HexLower[i] = c \/ HexUpper[i] = c
HexVal(c) == (CHOOSE i \in 1..Len(HexLower) : HexLower[i] = c \/ HexUpper[i] = c) - 1

RECURSIVE ParseInt(_, _)
ParseInt(s, base) ==
  IF Len(s) = 0 THEN 0
  ELSE ParseInt(SubSeq(s, 1, Len(s) - 1), base) * base + HexVal(s[Len(s)])

RECURSIVE FormatInt(_, _)
FormatInt(n, base) ==
  IF n < base THEN <<HexLower[n + 1]>>
  ELSE FormatInt(n \div base, base) \o <<HexLower[(n % base) + 1]>>

(***************************************************************************)
(* ipaddress.IPv4Address(str): _ip_int_from_string and _parse_octet of     *)
(* Python 3.11.  A failure is the record [ok |-> FALSE].                   *)
(***************************************************************************)
NotAnAddress == [ok |-> FALSE]

ParseOctetOk(o) ==
  /\ Len(o) > 0
  /\ \A i \in 1..Len(o) : IsDigit(o[i])
  /\ Len(o) <= 3
  /\ ~(o # <<"0">> /\ o[1] = "0")
  /\ ParseInt(o, 10) <= 255

IPv4Address(s) ==
  IF \E i \in 1..Len(s) : s[i] = "/" THEN NotAnAddress
  ELSE IF Len(s) = 0 THEN NotAnAddress
  ELSE LET octets == split(s, ".")
       IN  IF Len(octets) # 4 THEN NotAnAddress
           ELSE IF \E i \in 1..4 : ~ParseOctetOk(octets[i]) THEN NotAnAddress
           ELSE [ok |-> TRUE, version |-> 4,
                 octets |-> [i \in 1..4 |-> ParseInt(octets[i], 10)]]

\* str(IPv4Address)
IPv4Str(a) == join([i \in 1..4 |-> FormatInt(a.octets[i], 10)], ".")


(***************************************************************************)
(* ipaddress.IPv6Address(str): _split_scope_id, _ip_int_from_string and    *)
(* _parse_hextet of Python 3.11.  The address is kept as its 8 hextets.    *)
(***************************************************************************)
Contains(s, c) == \E i \in 1..Len(s) : s[i] = c
FirstIndex(s, c) == CHOOSE i \in 1..Len(s) : s[i] = c /\ \A j \in 1..(i - 1) : s[j] # c

\* addr, sep, scope_id = ip_str.partition('%')
SplitScopeId(s) ==
  IF ~Contains(s, "%")
  THEN [ok |-> TRUE, addr |-> s, scoped |-> FALSE, scope |-> <<>>]
  ELSE LET k  == FirstIndex(s, "%")
           sc == SubSeq(s, k + 1, Len(s))
       IN  IF Len(sc) = 0 \/ Contains(sc, "%")
           THEN [ok |-> FALSE, addr |-> <<>>, scoped |-> FALSE, scope |-> <<>>]
           ELSE [ok |-> TRUE, addr |-> SubSeq(s, 1, k - 1), scoped |-> TRUE, scope |-> sc]

ParseHextetOk(h) ==
  /\ \A i \in 1..Len(h) : IsHexDigit(h[i])
  /\ Len(h) <= 4
  /\ Len(h) > 0

\* The parts after an IPv4-style suffix has been converted to two hextets;
\* <<>> when the suffix is not an IPv4 address.
V6Parts(addr) ==
  LET parts0 == split(addr, ":")
      last   == parts0[Len(parts0)]
  IN  IF ~Contains(last, ".") THEN parts0
      ELSE LET v4 == IPv4Address(last)
           IN  IF ~v4.ok THEN <<>>
               ELSE SubSeq(parts0, 1, Len(parts0) - 1)
                    \o <<FormatInt(v4.octets[1] * 256 + v4.octets[2], 16),
                         FormatInt(v4.octets[3] * 256 + v4.octets[4], 16)>>

V6Hextets(parts) ==
  LET n       == Len(parts)
      skips   == {i \in 2..(n - 1) : parts[i] = <<>>}
      skip    == CHOOSE i \in skips : TRUE
      hi0     == skip - 1
      lo0     == n - skip
      hi      == IF skips = {} THEN n ELSE IF parts[1] = <<>> THEN hi0 - 1 ELSE hi0
      lo      == IF skips = {} THEN 0 ELSE IF parts[n] = <<>> THEN lo0 - 1 ELSE lo0
      skipped == IF skips = {} THEN 0 ELSE 8 - (hi + lo)
      shapeOk == IF skips = {}
                 THEN n = 8 /\ parts[1] # <<>> /\ parts[n] # <<>>
                 ELSE /\ Cardinality(skips) = 1
                      /\ (parts[1] = <<>> => hi = 0)
                      /\ (parts[n] = <<>> => lo = 0)
                      /\ skipped >= 1
      used    == [i \in 1..(hi + lo) |-> IF i <= hi THEN parts[i] ELSE parts[n - lo + (i - hi)]]
  IN  IF ~shapeOk THEN <<>>
      ELSE IF \E i \in 1..(hi + lo) : ~ParseHextetOk(used[i]) THEN <<>>
      ELSE [i \in 1..8 |->
              IF i <= hi THEN ParseInt(parts[i], 16)
              ELSE IF i <= hi + skipped THEN 0
              ELSE ParseInt(parts[n - lo + (i - hi - skipped)], 16)]

IPv6Address(s) ==
  IF Contains(s, "/") THEN NotAnAddress
  ELSE LET sp == SplitScopeId(s)
       IN  IF ~sp.ok THEN NotAnAddress
           ELSE IF Len(sp.addr) = 0 THEN NotAnAddress
           ELSE IF Len(split(sp.addr, ":")) < 3 THEN NotAnAddress
           ELSE LET parts == V6Parts(sp.addr)
                IN  IF parts = <<>> \/ Len(parts) > 9 THEN NotAnAddress
                    ELSE LET h == V6Hextets(parts)
                         IN  IF h = <<>> THEN NotAnAddress
                             ELSE [ok |-> TRUE, version |-> 6, hextets |-> h,
                                   scoped |-> sp.scoped, scope |-> sp.scope]

\* ipaddress.ip_address(str): IPv4 first, then IPv6, else ValueError.
ip_address(s) ==
  IF IPv4Address(s).ok THEN IPv4Address(s)
  ELSE IF IPv6Address(s).ok THEN IPv6Address(s)
  ELSE NotAnAddress

(***************************************************************************)
(* str(IPv6Address): _string_from_ip_int with _compress_hextets.           *)
(***************************************************************************)
RECURSIVE ZeroRun(_, _)
\* Number of consecutive zero hextets of h starting at index i.
ZeroRun(h, i) == IF i > Len(h) \/ h[i] # 0 THEN 0 ELSE 1 + ZeroRun(h, i + 1)

CompressHextets(h) ==
  LET strs    == [i \in 1..8 |-> FormatInt(h[i], 16)]
      bestLen == CHOOSE l \in 0..8 :
                   /\ \E i \in 1..8 : ZeroRun(h, i) = l
                   /\ \A i \in 1..8 : ZeroRun(h, i) <= l
      start   == CHOOSE i \in 1..8 :
                   ZeroRun(h, i) = bestLen /\ \A j \in 1..(i - 1) : ZeroRun(h, j) < bestLen
      stop    == start + bestLen
  IN  IF bestLen <= 1 THEN strs
      ELSE (IF start = 1 THEN << <<>> >> ELSE <<>>)
           \o SubSeq(strs, 1, start - 1) \o << <<>> >> \o SubSeq(strs, stop, 8)
           \o (IF stop = 9 THEN << <<>> >> ELSE <<>>)

IPv6Str(a) ==
  join(CompressHextets(a.hextets), ":")
  \o (IF a.scoped THEN <<"%">> \o a.scope ELSE <<>>)

\* str(address)
AddressStr(a) == IF a.version = 4 THEN IPv4Str(a) ELSE IPv6Str(a)


(***************************************************************************)
(* Values of the program.                                                  *)
(***************************************************************************)
\* dns.A, dns.AAAA, dns.A6 and two other query types; two query classes.
QueryTypes   == {"A", "AAAA", "A6", "MX", "CNAME"}
QueryClasses == {"IN", "CH"}

\* Config objects (Config.__init__): dns_ttl, dns_domains (the keys of the
\* dict), db_query.  The first allow-list holds a domain and a sub-domain of it.
DefaultDbQuery == "SELECT address FROM dns WHERE domain = %s"
Configs ==
  { [dns_ttl |-> 300, dns_domains |-> {<<"d">>, <<"h", ".", "d">>}, db_query |-> DefaultDbQuery],
    [dns_ttl |-> 60,  dns_domains |-> {<<"d", ".", "h">>},          db_query |-> DefaultDbQuery] }

\* A Query object: query.name.name, query.type, query.cls.
MkQuery(n, t, c) == [name |-> n, type |-> t, cls |-> c]
NoQuery == MkQuery(<<>>, "none", "none")

\* Failures.  origin tells who created the exception instance: two
\* exceptions of one type from different origins are different objects.
MkFailure(t, o) == [type |-> t, origin |-> o]
NoFailure == MkFailure("none", "none")
\* error.DomainError() as built by DynamicResolver itself.
DomainError == MkFailure("DomainError", "resolver")

\* A Deferred: not created yet, waiting, fired with a result, or fired with a failure.
NoValue == [answers |-> <<>>, authority |-> <<>>, additional |-> <<>>]
NoDeferred       == [state |-> "none",    value |-> NoValue, failure |-> NoFailure]
Pending          == [state |-> "pending", value |-> NoValue, failure |-> NoFailure]
Succeeded(v)     == [state |-> "ok",      value |-> v,       failure |-> NoFailure]
Failed(f)        == [state |-> "failed",  value |-> NoValue, failure |-> f]

(***************************************************************************)
(* DynamicResolver._doCreateRecord (lines 44-77).                          *)
(***************************************************************************)
\* RecordType choosing the record class from the address alone.
RecordTypeCoerced(address, qtype) ==
  IF address.version = 4 THEN "Record_A" ELSE "Record_AAAA"
\* RecordType answering an A6 query with the AAAA class (lines 68-69 left out
\* and line 66 testing for either type).
RecordTypeA6AsAAAA(address, qtype) ==
  IF address.version = 4
  THEN (IF qtype = "A" THEN "Record_A" ELSE "None")
  ELSE (IF qtype \in {"AAAA", "A6"} THEN "Record_AAAA" ELSE "None")
\* Lines 60-69: the record class matching the address version and the query
\* type, "None" when there is no match.
RecordType(address, qtype) ==
  IF address.version = 4
  THEN (IF qtype = "A" THEN "Record_A" ELSE "None")
  ELSE (IF qtype = "AAAA" THEN "Record_AAAA"
        ELSE IF qtype = "A6" THEN "Record_A6"
        ELSE "None")

\* Lines 73-77: dns.RRHeader(name=name, payload=record_type(address=str(address)), ttl=dns_ttl).
\* RRHeader and the record classes are Twisted's (twisted.names.dns), not this
\* repository's: they are taken to build the header and payload they are
\* given, with the keyword arguments used here.
RRHeader(nm, record_type, address, ttl) ==
  [name |-> nm, payload |-> [record |-> record_type, address |-> AddressStr(address)], ttl |-> ttl]
NoRecord == [name |-> <<>>, payload |-> [record |-> "None", address |-> <<>>], ttl |-> 0]

\* doCreateRecord raising ValueError, not TypeError, for an address of the
\* wrong family.
doCreateRecordMismatchAsValueError(cfg, q, nm, representation) ==
  LET address == ip_address(representation)
  IN  IF ~address.ok \/ RecordType(address, q.type) = "None"
      THEN [raised |-> "ValueError", record |-> NoRecord]
      ELSE [raised |-> "none",
            record |-> RRHeader(nm, RecordType(address, q.type), address, cfg.dns_ttl)]

\* The whole method: raised is "ValueError" (not an address), "TypeError"
\* (address of the wrong family) or "none" (record returned).
doCreateRecord(cfg, q, nm, representation) ==
  LET address == ip_address(representation)
  IN  IF ~address.ok
      THEN [raised |-> "ValueError", record |-> NoRecord]
      ELSE IF RecordType(address, q.type) = "None"
      THEN [raised |-> "TypeError", record |-> NoRecord]
      ELSE [raised |-> "none",
            record |-> RRHeader(nm, RecordType(address, q.type), address, cfg.dns_ttl)]

(***************************************************************************)
(* DynamicResolver.query (lines 125-139): the scope test.                  *)
(***************************************************************************)
SupportedTypes == {"A", "AAAA", "A6"}

\* Suffix taking labels[2:] instead of labels[1:].
SuffixSkippingTwo(nm) == join(Rest(Rest(split(nm, "."))), ".")
\* Lines 133-134: ".".join(query.name.name.split('.')[1:])
Suffix(nm) == join(Rest(split(nm, ".")), ".")

\* InScope without the test of the query type (line 130 left out).
InScopeAnyType(cfg, q) == Suffix(q.name) \in cfg.dns_domains
\* InScope matching the allow-list against the end of the name
\* (name.endswith(domain)) instead of the name without its first label.
InScopeEndsWith(cfg, q) ==
  /\ q.type \in SupportedTypes
  /\ \E d \in cfg.dns_domains :
       /\ Len(d) <= Len(q.name)
       /\ SubSeq(q.name, Len(q.name) - Len(d) + 1, Len(q.name)) = d
\* Lines 130-134: both conditions under which _doDynamicResponse is called.
InScope(cfg, q) == q.type \in SupportedTypes /\ Suffix(q.name) \in cfg.dns_domains

(***************************************************************************)
(* Pieces of _doDynamicResponse.onResult / onError (lines 88-115).         *)
(***************************************************************************)
\* Line 89: "not result".
NoRows(result) == Len(result) = 0
\* Line 94: result[0][0].
Representation(result) == result[1][1]
\* LiteralAnswer with the record in the answers list.
LiteralAnswerInAnswers(record) == [answers |-> <<record>>, authority |-> <<>>, additional |-> <<>>]
\* Line 99: (answers, [record,], additional), answers and additional being
\* the default lists of this closure, both empty.
LiteralAnswer(record) == [answers |-> <<>>, authority |-> <<record>>, additional |-> <<>>]
\* Rewritten that leaves the query name as it was.
NotRewritten(q, representation) == q
\* Rewritten building a new query for the alias with the default type A.
RewrittenAsTypeA(q, representation) == [q EXCEPT !.name = representation, !.type = "A"]
\* Line 102: query.name.name = representation.
Rewritten(q, representation) == [q EXCEPT !.name = representation]
\* query(query, timeout=None): no timeout handed to the upstream resolver.
NoTimeout == <<>>
\* Line 105: the timeout handed to the upstream resolver.
UpstreamTimeout == <<3, 3, 3>>
\* ChainDeferred that turns an upstream failure into a DomainError.
ChainAsDomainError(fired) == IF fired.state = "failed" THEN Failed(DomainError) ELSE fired
\* Line 106: entry.chainDeferred(promise): promise fires as entry fired.
ChainDeferred(fired) == fired
\* OnErrorOutcome that drops the store failure.
OnErrorAsDomainError(err) == Failed(DomainError)
\* Line 115: promise.errback(err).
OnErrorOutcome(err) == Failed(err)
\* NoSuchDomainOutcome answering with an empty success.
NoSuchDomainEmptyAnswer == Succeeded(NoValue)
\* MismatchOutcome that never fires the promise.
MismatchNeverFired == Pending
\* Lines 91 and 110: promise.errback(error.DomainError()).
NoSuchDomainOutcome == Failed(DomainError)
MismatchOutcome     == Failed(DomainError)
\* Line 139: defer.fail(error.DomainError()).
UnsupportedOutcome  == Failed(DomainError)


\* The Deferred of connection.runQuery: fired with rows, or with a failure.
NoStoreCall      == [state |-> "none",    rows |-> <<>>, failure |-> NoFailure]
StorePending     == [state |-> "pending", rows |-> <<>>, failure |-> NoFailure]
StoreRows(rows)  == [state |-> "ok",      rows |-> rows, failure |-> NoFailure]
StoreFailed(f)   == [state |-> "failed",  rows |-> <<>>, failure |-> f]

(***************************************************************************)
(* Inputs.                                                                 *)
(***************************************************************************)
Res == 1..MaxRes

\* Every name over a three-letter alphabet up to MaxNameLen characters.
NameAlphabet == {"h", "d", "."}
Names == UNION {[1..k -> NameAlphabet] : k \in 0..MaxNameLen}
AllQueries == {MkQuery(n, t, c) : n \in Names, t \in QueryTypes, c \in QueryClasses}

\* Values of the first column of the first row of the store.
StoredValues ==
  { <<"1", ".", "2", ".", "3", ".", "4">>,
    <<"2", "0", "3", ".", "0", ".", "1", "1", "3", ".", "5">>,
    <<"1", "0", ".", "0", ".", "0", ".", "2", "5", "5">>,
    <<"1", ".", "2", ".", "3">>,
    <<"0", "1", ".", "2", ".", "3", ".", "4">>,
    <<"1", ".", "2", ".", "3", ".", "2", "5", "6">>,
    <<":", ":", "1">>,
    <<"2", "0", "0", "1", ":", "D", "B", "8", ":", ":", "1">>,
    <<"1", ":", "0", ":", "0", ":", "0", ":", "0", ":", "0", ":", "0", ":", "2">>,
    <<":", ":", "1", ".", "2", ".", "3", ".", "4">>,
    <<"f", "e", "8", "0", ":", ":", "1", "%", "e">>,
    <<":", ":", ":">>,
    <<"h", ".", "e">>,
    <<"h", ".", "d">>,
    <<"d">>,
    <<>> }
AllResults ==
  {<<>>} \cup {<< <<v>> >> : v \in StoredValues}
  \cup { << <<<<"1", ".", "2", ".", "3", ".", "4">>, <<"h", ".", "e">>>>, <<<<":", ":", "1">>>> >>, << <<<<"h", ".", "e">>>>, <<<<"1", ".", "2", ".", "3", ".", "4">>>> >> }
StoreFailures == {MkFailure("OperationalError", "store"), MkFailure("ConnectionLost", "store")}

\* Outcomes of the upstream resolver.
UpRecA     == [name |-> <<"h", ".", "e">>, payload |-> [record |-> "Record_A", address |-> <<"9", ".", "9", ".", "9", ".", "9">>], ttl |-> 30]
UpRecCNAME == [name |-> <<"h", ".", "e">>, payload |-> [record |-> "Record_CNAME", address |-> <<"x", ".", "e">>], ttl |-> 30]
UpRecNS    == [name |-> <<"e">>, payload |-> [record |-> "Record_NS", address |-> <<"n", ".", "e">>], ttl |-> 30]
UpstreamAnswers ==
  { [answers |-> <<UpRecA>>, authority |-> <<>>, additional |-> <<>>],
    [answers |-> <<>>, authority |-> <<>>, additional |-> <<>>],
    [answers |-> <<UpRecCNAME, UpRecA>>, authority |-> <<UpRecNS>>, additional |-> <<UpRecA>>] }
UpstreamFailures ==
  { MkFailure("DNSQueryTimeoutError", "upstream"),
    MkFailure("DNSNameError", "upstream"),
    MkFailure("DomainError", "upstream") }

\* The narrower inputs of the specification with several resolutions in flight.
SmallQueries ==
  { MkQuery(<<"h", ".", "d">>, "A", "IN"), MkQuery(<<"h", ".", "d">>, "AAAA", "IN"),
    MkQuery(<<"h", ".", "d">>, "MX", "IN"), MkQuery(<<"d">>, "A", "IN") }
SmallResults == {<<>>} \cup {<< <<v>> >> : v \in { <<"1", ".", "2", ".", "3", ".", "4">>, <<":", ":", "1">>, <<"h", ".", "e">> }}
SmallStoreFailures == {MkFailure("OperationalError", "store")}
SmallAnswers == {[answers |-> <<UpRecA>>, authority |-> <<>>, additional |-> <<>>]}
SmallUpstreamFailures == {MkFailure("DNSQueryTimeoutError", "upstream")}

(***************************************************************************)
(* The resolvers main hands to the server factory (lines 267-276), by the  *)
(* keyword each is passed under.  The network client built at line 264 is  *)
(* in none of the lists: it is the third argument of DynamicResolver.      *)
(***************************************************************************)
Authorities == <<>>
Caches == <<"cache">>
Clients == <<"hosts", "dynamic">>
\* The factory chains what it was given as authorities, then caches, then
\* clients ("Use clients instead of authorities, so caching works", line 271).
Resolvers == Authorities \o Caches \o Clients
\* The failures on which the chain moves on to its next resolver.
Trapped == {"DomainError", "TimeoutError", "DNSQueryTimeoutError", "NotImplementedError"}

\* The walk of the chain for one request.
NoWalk == [state |-> "idle", query |-> NoQuery, at |-> 0, consulted |-> <<>>]
HandedTo(q, i, consulted) ==
  [state |-> "handed", query |-> q, at |-> i, consulted |-> Append(consulted, Resolvers[i])]
\* The resolver at place i of the chain failed on the query: the next one
\* gets it, and after the last one the request fails.
MovedOn(w) ==
  IF w.at < Len(Resolvers) THEN HandedTo(w.query, w.at + 1, w.consulted)
  ELSE [w EXCEPT !.state = "failed"]

(***************************************************************************)
(* State.  Each resolution r is one call of DynamicResolver.query.         *)
(***************************************************************************)
VARIABLES
  config,         \* self._config, read-only after construction
  pc,             \* where call r is: idle, store (awaiting runQuery), upstream, done
  queries,        \* the caller's Query object of call r (mutable)
  received,       \* the Query as it was when call r was made
  name,           \* the local `name` of _doDynamicResponse (line 85)
  promise,        \* the Deferred that call r returned
  entry,          \* the Deferred of connection.runQuery (line 118)
  upstreamEntry,  \* the Deferred of self._resolver.query (line 105)
  storeCalls,     \* the runQuery calls made by call r
  upstreamCalls,  \* the self._resolver.query calls made by call r
  log,            \* the log lines written by call r
  chain           \* the walk of the server's resolver chain for request r

vars == <<config, pc, queries, received, name, promise, entry, upstreamEntry,
          storeCalls, upstreamCalls, log, chain>>

Init ==
  /\ config \in Configs
  /\ pc = [r \in Res |-> "idle"]
  /\ queries = [r \in Res |-> NoQuery]
  /\ received = [r \in Res |-> NoQuery]
  /\ name = [r \in Res |-> <<>>]
  /\ promise = [r \in Res |-> NoDeferred]
  /\ entry = [r \in Res |-> NoStoreCall]
  /\ upstreamEntry = [r \in Res |-> NoDeferred]
  /\ storeCalls = [r \in Res |-> <<>>]
  /\ upstreamCalls = [r \in Res |-> <<>>]
  /\ log = [r \in Res |-> <<>>]
  /\ chain = [r \in Res |-> NoWalk]

(***************************************************************************)
(* DynamicResolver.query (lines 125-139) with _doDynamicResponse up to its *)
(* return (lines 84-85, 118-122).                                          *)
(***************************************************************************)
query(r, q) ==
  /\ pc[r] = "idle"
  /\ queries' = [queries EXCEPT ![r] = q]
  /\ received' = [received EXCEPT ![r] = q]
  /\ IF InScope(config, q)
     THEN /\ promise' = [promise EXCEPT ![r] = Pending]
          /\ name' = [name EXCEPT ![r] = q.name]
          /\ storeCalls' = [storeCalls EXCEPT
                              ![r] = Append(@, [sql |-> config.db_query, args |-> <<q.name>>])]
          /\ entry' = [entry EXCEPT ![r] = StorePending]
          /\ pc' = [pc EXCEPT ![r] = "store"]
          /\ UNCHANGED log
     ELSE /\ log' = [log EXCEPT ![r] = Append(@, "Unsupported query: {data}")]
          /\ promise' = [promise EXCEPT ![r] = UnsupportedOutcome]
          /\ pc' = [pc EXCEPT ![r] = "done"]
          /\ UNCHANGED <<name, storeCalls, entry>>
  /\ UNCHANGED <<chain, config, upstreamEntry, upstreamCalls>>

(***************************************************************************)
(* onResult whose alias branch falls through to the errback of line 110    *)
(* after chaining the upstream call to the promise.                        *)
(***************************************************************************)
onResultAliasAlsoFails(r, result) ==
  /\ pc[r] = "store"
  /\ entry' = [entry EXCEPT ![r] = StoreRows(result)]
  /\ IF NoRows(result)
     THEN /\ log' = [log EXCEPT ![r] = Append(@, "{data}: No such domain")]
          /\ promise' = [promise EXCEPT ![r] = NoSuchDomainOutcome]
          /\ pc' = [pc EXCEPT ![r] = "done"]
          /\ UNCHANGED <<queries, upstreamEntry, upstreamCalls>>
     ELSE LET representation == Representation(result)
              made == doCreateRecord(config, queries[r], name[r], representation)
          IN  CASE made.raised = "none" ->
                     /\ log' = [log EXCEPT ![r] = Append(@, "SQL query result: {data}")]
                     /\ promise' = [promise EXCEPT ![r] = Succeeded(LiteralAnswer(made.record))]
                     /\ pc' = [pc EXCEPT ![r] = "done"]
                     /\ UNCHANGED <<queries, upstreamEntry, upstreamCalls>>
                [] made.raised = "ValueError" ->
                     /\ queries' = [queries EXCEPT ![r] = Rewritten(@, representation)]
                     /\ log' = [log EXCEPT ![r] = @ \o <<"SQL query result: {data}",
                                                         "Recursively resolve domain: {data}">>]
                     /\ upstreamCalls' = [upstreamCalls EXCEPT
                                            ![r] = Append(@, [query |-> Rewritten(queries[r], representation),
                                                              timeout |-> UpstreamTimeout])]
                     /\ upstreamEntry' = [upstreamEntry EXCEPT ![r] = Pending]
                     /\ pc' = [pc EXCEPT ![r] = "upstream"]
                     /\ promise' = [promise EXCEPT ![r] = Failed(DomainError)]
                [] made.raised = "TypeError" ->
                     /\ log' = [log EXCEPT ![r] = @ \o <<"SQL query result: {data}",
                                                         "Mismatched address and query">>]
                     /\ promise' = [promise EXCEPT ![r] = MismatchOutcome]
                     /\ pc' = [pc EXCEPT ![r] = "done"]
                     /\ UNCHANGED <<queries, upstreamEntry, upstreamCalls>>
  /\ UNCHANGED <<chain, config, received, name, storeCalls>>

(***************************************************************************)
(* onResult that resolves an alias by itself: it rewrites the query and    *)
(* looks the alias up in the store, instead of calling the upstream        *)
(* resolver.                                                               *)
(***************************************************************************)
onResultLooksUpAlias(r, result) ==
  /\ pc[r] = "store"
  /\ entry' = [entry EXCEPT ![r] = IF ~NoRows(result) /\ ip_address(Representation(result)) = NotAnAddress THEN StorePending ELSE StoreRows(result)]
  /\ IF NoRows(result)
     THEN /\ log' = [log EXCEPT ![r] = Append(@, "{data}: No such domain")]
          /\ promise' = [promise EXCEPT ![r] = NoSuchDomainOutcome]
          /\ pc' = [pc EXCEPT ![r] = "done"]
          /\ UNCHANGED <<queries, upstreamEntry, upstreamCalls, storeCalls>>
     ELSE LET representation == Representation(result)
              made == doCreateRecord(config, queries[r], name[r], representation)
          IN  CASE made.raised = "none" ->
                     /\ log' = [log EXCEPT ![r] = Append(@, "SQL query result: {data}")]
                     /\ promise' = [promise EXCEPT ![r] = Succeeded(LiteralAnswer(made.record))]
                     /\ pc' = [pc EXCEPT ![r] = "done"]
                     /\ UNCHANGED <<queries, upstreamEntry, upstreamCalls, storeCalls>>
                [] made.raised = "ValueError" ->
                     /\ queries' = [queries EXCEPT ![r] = Rewritten(@, representation)]
                     /\ log' = [log EXCEPT ![r] = @ \o <<"SQL query result: {data}",
                                                         "Recursively resolve domain: {data}">>]
                     /\ storeCalls' = [storeCalls EXCEPT
                                         ![r] = Append(@, [sql |-> config.db_query, args |-> <<representation>>])]
                     /\ UNCHANGED <<pc, promise, upstreamEntry, upstreamCalls>>
                [] made.raised = "TypeError" ->
                     /\ log' = [log EXCEPT ![r] = @ \o <<"SQL query result: {data}",
                                                         "Mismatched address and query">>]
                     /\ promise' = [promise EXCEPT ![r] = MismatchOutcome]
                     /\ pc' = [pc EXCEPT ![r] = "done"]
                     /\ UNCHANGED <<queries, upstreamEntry, upstreamCalls, storeCalls>>
  /\ UNCHANGED <<chain, config, received, name>>

(***************************************************************************)
(* runQuery fires with rows: onResult (lines 88-110).                      *)
(***************************************************************************)
onResult(r, result) ==
  /\ pc[r] = "store"
  /\ entry' = [entry EXCEPT ![r] = StoreRows(result)]
  /\ IF NoRows(result)
     THEN /\ log' = [log EXCEPT ![r] = Append(@, "{data}: No such domain")]
          /\ promise' = [promise EXCEPT ![r] = NoSuchDomainOutcome]
          /\ pc' = [pc EXCEPT ![r] = "done"]
          /\ UNCHANGED <<queries, upstreamEntry, upstreamCalls>>
     ELSE LET representation == Representation(result)
              made == doCreateRecord(config, queries[r], name[r], representation)
          IN  CASE made.raised = "none" ->
                     /\ log' = [log EXCEPT ![r] = Append(@, "SQL query result: {data}")]
                     /\ promise' = [promise EXCEPT ![r] = Succeeded(LiteralAnswer(made.record))]
                     /\ pc' = [pc EXCEPT ![r] = "done"]
                     /\ UNCHANGED <<queries, upstreamEntry, upstreamCalls>>
                [] made.raised = "ValueError" ->
                     /\ queries' = [queries EXCEPT ![r] = Rewritten(@, representation)]
                     /\ log' = [log EXCEPT ![r] = @ \o <<"SQL query result: {data}",
                                                         "Recursively resolve domain: {data}">>]
                     /\ upstreamCalls' = [upstreamCalls EXCEPT
                                            ![r] = Append(@, [query |-> Rewritten(queries[r], representation),
                                                              timeout |-> UpstreamTimeout])]
                     /\ upstreamEntry' = [upstreamEntry EXCEPT ![r] = Pending]
                     /\ pc' = [pc EXCEPT ![r] = "upstream"]
                     /\ UNCHANGED promise
                [] made.raised = "TypeError" ->
                     /\ log' = [log EXCEPT ![r] = @ \o <<"SQL query result: {data}",
                                                         "Mismatched address and query">>]
                     /\ promise' = [promise EXCEPT ![r] = MismatchOutcome]
                     /\ pc' = [pc EXCEPT ![r] = "done"]
                     /\ UNCHANGED <<queries, upstreamEntry, upstreamCalls>>
  /\ UNCHANGED <<chain, config, received, name, storeCalls>>

(***************************************************************************)
(* onError with the promise kept on the resolver instead of in the call:   *)
(* the failure fires every promise that waits for the store.               *)
(***************************************************************************)
onErrorSharedPromise(r, err) ==
  /\ pc[r] = "store"
  /\ entry' = [entry EXCEPT ![r] = StoreFailed(err)]
  /\ log' = [log EXCEPT ![r] = Append(@, "SQL query failed")]
  /\ promise' = [s \in Res |-> IF pc[s] = "store" THEN Failed(err) ELSE promise[s]]
  /\ pc' = [s \in Res |-> IF pc[s] = "store" THEN "done" ELSE pc[s]]
  /\ UNCHANGED <<chain, config, queries, received, name, upstreamEntry, storeCalls, upstreamCalls>>

(***************************************************************************)
(* runQuery fires with a failure: onError (lines 113-115).                 *)
(***************************************************************************)
onError(r, err) ==
  /\ pc[r] = "store"
  /\ entry' = [entry EXCEPT ![r] = StoreFailed(err)]
  /\ log' = [log EXCEPT ![r] = Append(@, "SQL query failed")]
  /\ promise' = [promise EXCEPT ![r] = OnErrorOutcome(err)]
  /\ pc' = [pc EXCEPT ![r] = "done"]
  /\ UNCHANGED <<chain, config, queries, received, name, upstreamEntry, storeCalls, upstreamCalls>>

(***************************************************************************)
(* The upstream Deferred fires; chainDeferred (line 106) fires promise.    *)
(***************************************************************************)
upstreamFires(r, fired) ==
  /\ pc[r] = "upstream"
  /\ upstreamEntry' = [upstreamEntry EXCEPT ![r] = fired]
  /\ promise' = [promise EXCEPT ![r] = ChainDeferred(fired)]
  /\ pc' = [pc EXCEPT ![r] = "done"]
  /\ UNCHANGED <<chain, config, queries, received, name, entry, storeCalls, upstreamCalls, log>>

(***************************************************************************)
(* The caller has the outcome of call r; the next call starts afresh, with *)
(* a new promise and new locals (lines 84-88 run once per call).           *)
(***************************************************************************)
Return(r) ==
  /\ pc[r] = "done"
  /\ promise[r].state \in {"ok", "failed"}
  /\ pc' = [pc EXCEPT ![r] = "idle"]
  /\ queries' = [queries EXCEPT ![r] = NoQuery]
  /\ received' = [received EXCEPT ![r] = NoQuery]
  /\ name' = [name EXCEPT ![r] = <<>>]
  /\ promise' = [promise EXCEPT ![r] = NoDeferred]
  /\ entry' = [entry EXCEPT ![r] = NoStoreCall]
  /\ upstreamEntry' = [upstreamEntry EXCEPT ![r] = NoDeferred]
  /\ storeCalls' = [storeCalls EXCEPT ![r] = <<>>]
  /\ upstreamCalls' = [upstreamCalls EXCEPT ![r] = <<>>]
  /\ log' = [log EXCEPT ![r] = <<>>]
  /\ UNCHANGED <<chain, config>>

(***************************************************************************)
(* Specifications.                                                         *)
(***************************************************************************)
StoreCompletes(r) ==
  \/ \E result \in SmallResults : onResult(r, result)
  \/ \E err \in SmallStoreFailures : onError(r, err)

UpstreamCompletes(r) ==
  \/ \E v \in SmallAnswers : upstreamFires(r, Succeeded(v))
  \/ \E f \in SmallUpstreamFailures : upstreamFires(r, Failed(f))

\* Several resolutions in flight on one resolver, interleaved at their
\* suspension points.
Next ==
  \E r \in Res :
    \/ \E q \in SmallQueries : query(r, q)
    \/ StoreCompletes(r)
    \/ UpstreamCompletes(r)
    \/ Return(r)

Spec == Init /\ [][Next]_vars

\* The store call and the upstream call each eventually complete.
FairSpec ==
  Spec /\ \A r \in Res : WF_vars(StoreCompletes(r)) /\ WF_vars(UpstreamCompletes(r))

\* One resolution after another on one resolver, over the full inputs.
NextSeq ==
  \/ \E q \in AllQueries : query(1, q)
  \/ \E result \in AllResults : onResult(1, result)
  \/ \E err \in StoreFailures : onError(1, err)
  \/ \E v \in UpstreamAnswers : upstreamFires(1, Succeeded(v))
  \/ \E f \in UpstreamFailures : upstreamFires(1, Failed(f))
  \/ Return(1)

SpecSeq == Init /\ [][NextSeq]_vars


(***************************************************************************)
(* An upstream resolver that never answers on its own.  The resolver was   *)
(* handed a timeout sequence at line 105; when its last timeout has run    *)
(* out it fires the Deferred with a timeout failure.  Without a timeout    *)
(* nothing fires it.                                                       *)
(***************************************************************************)
upstreamTimesOut(r) ==
  /\ pc[r] = "upstream"
  /\ upstreamCalls[r][Len(upstreamCalls[r])].timeout # NoTimeout
  /\ upstreamFires(r, Failed(MkFailure("DNSQueryTimeoutError", "upstream")))

StalledNext ==
  \E r \in Res :
    \/ \E q \in SmallQueries : query(r, q)
    \/ StoreCompletes(r)
    \/ upstreamTimesOut(r)
    \/ Return(r)

\* The store call completes and the timers of the upstream resolver run.
StalledSpec ==
  /\ Init /\ [][StalledNext]_vars
  /\ \A r \in Res : WF_vars(StoreCompletes(r)) /\ WF_vars(upstreamTimesOut(r))

(***************************************************************************)
(* The server built by main (lines 267-277): a request is handed to the    *)
(* first resolver of the chain, and to the next one each time the one that *)
(* has it fails with a trapped failure.  The cache and the hosts file      *)
(* answer or fail on their own; the dynamic resolver is the one above.     *)
(***************************************************************************)
handleQuery(r, q) ==
  /\ chain[r].state = "idle"
  /\ pc[r] = "idle"
  /\ chain' = [chain EXCEPT ![r] = HandedTo(q, 1, <<>>)]
  /\ UNCHANGED <<config, pc, queries, received, name, promise, entry, upstreamEntry,
                 storeCalls, upstreamCalls, log>>

memberAnswers(r) ==
  /\ chain[r].state = "handed"
  /\ Resolvers[chain[r].at] # "dynamic"
  /\ chain' = [chain EXCEPT ![r].state = "answered"]
  /\ UNCHANGED <<config, pc, queries, received, name, promise, entry, upstreamEntry,
                 storeCalls, upstreamCalls, log>>

memberFails(r) ==
  /\ chain[r].state = "handed"
  /\ Resolvers[chain[r].at] # "dynamic"
  /\ chain' = [chain EXCEPT ![r] = MovedOn(chain[r])]
  /\ UNCHANGED <<config, pc, queries, received, name, promise, entry, upstreamEntry,
                 storeCalls, upstreamCalls, log>>

\* The chain calls DynamicResolver.query with the request.
dynamicQuery(r) ==
  /\ chain[r].state = "handed"
  /\ Resolvers[chain[r].at] = "dynamic"
  /\ query(r, chain[r].query)

\* The Deferred DynamicResolver.query returned has fired.
dynamicFired(r) ==
  /\ chain[r].state = "handed"
  /\ Resolvers[chain[r].at] = "dynamic"
  /\ pc[r] = "done"
  /\ chain' = [chain EXCEPT ![r] =
                 IF promise[r].state = "ok" THEN [chain[r] EXCEPT !.state = "answered"]
                 ELSE IF promise[r].failure.type \in Trapped THEN MovedOn(chain[r])
                 ELSE [chain[r] EXCEPT !.state = "failed"]]
  /\ UNCHANGED <<config, pc, queries, received, name, promise, entry, upstreamEntry,
                 storeCalls, upstreamCalls, log>>

\* The response is sent and the request is over.
respond(r) ==
  /\ chain[r].state \in {"answered", "failed"}
  /\ pc[r] = "idle"
  /\ chain' = [chain EXCEPT ![r] = NoWalk]
  /\ UNCHANGED <<config, pc, queries, received, name, promise, entry, upstreamEntry,
                 storeCalls, upstreamCalls, log>>

ChainNext ==
  \E r \in Res :
    \/ \E q \in SmallQueries : handleQuery(r, q)
    \/ memberAnswers(r)
    \/ memberFails(r)
    \/ dynamicQuery(r)
    \/ StoreCompletes(r)
    \/ UpstreamCompletes(r)
    \/ dynamicFired(r)
    \/ chain[r].state \in {"answered", "failed"} /\ Return(r)
    \/ respond(r)

ChainSpec == Init /\ [][ChainNext]_vars

(***************************************************************************)
(* Properties of one resolution, checked under SpecSeq.                    *)
(***************************************************************************)
Called(r) == pc[r] # "idle"
\* The store answered call r with at least one row; its first column.
HasValue(r) == entry[r].state = "ok" /\ Len(entry[r].rows) > 0
StoredValue(r) == entry[r].rows[1][1]

\* C1: a query whose type is not A, AAAA or A6 is failed at once with the
\* resolver's DomainError (the "Unsupported query" outcome), whatever its
\* name, and neither the store nor the upstream resolver is called.
C1_UnsupportedType ==
  \A r \in Res :
    (Called(r) /\ received[r].type \notin {"A", "AAAA", "A6"}) =>
      /\ pc[r] = "done"
      /\ promise[r] = Failed(DomainError)
      /\ log[r] = <<"Unsupported query: {data}">>
      /\ storeCalls[r] = <<>>
      /\ upstreamCalls[r] = <<>>

\* An MX query for a name whose suffix is allow-listed has been failed.
C1_Witness ==
  \E r \in Res :
    /\ pc[r] = "done"
    /\ received[r].type = "MX"
    /\ received[r].name = <<"h", ".", "d">>
    /\ <<"d">> \in config.dns_domains
    /\ promise[r].state = "failed"

\* The name with exactly its first label and the dot after it removed; a
\* name without a dot leaves the empty string.
FirstLabelRemoved(nm) ==
  IF \E k \in 1..Len(nm) : nm[k] = "."
  THEN LET k == CHOOSE i \in 1..Len(nm) : nm[i] = "." /\ \A j \in 1..(i - 1) : nm[j] # "."
       IN  [i \in 1..(Len(nm) - k) |-> nm[k + i]]
  ELSE <<>>
\* nm is label "." label "." d for an allow-listed domain d.
TwoLabelsInFront(nm) ==
  \E d \in config.dns_domains :
    \E i, j \in 1..Len(nm) :
      /\ i < j /\ nm[i] = "." /\ nm[j] = "."
      /\ \A k \in 1..(j - 1) : k # i => nm[k] # "."
      /\ Len(nm) - j = Len(d)
      /\ \A k \in 1..Len(d) : nm[j + k] = d[k]
OutOfScopeNow(r) ==
  /\ pc[r] = "done"
  /\ promise[r] = Failed(DomainError)
  /\ log[r] = <<"Unsupported query: {data}">>
  /\ storeCalls[r] = <<>>
TakenInScope(r) ==
  /\ Len(storeCalls[r]) = 1
  /\ (Len(log[r]) > 0 => log[r][1] # "Unsupported query: {data}")
SupportedCall(r) == Called(r) /\ received[r].type \in {"A", "AAAA", "A6"}

\* C2 as stated: the scope rule, and in particular every name with two
\* labels in front of an allow-listed domain, and every name equal to an
\* allow-listed domain, is out of scope.
C2_AsStated ==
  \A r \in Res :
    SupportedCall(r) =>
      /\ IF FirstLabelRemoved(received[r].name) \in config.dns_domains
         THEN TakenInScope(r) ELSE OutOfScopeNow(r)
      /\ (TwoLabelsInFront(received[r].name) \/ received[r].name \in config.dns_domains)
           => OutOfScopeNow(r)

\* C2 (amended): a query of type A, AAAA or A6 is in scope exactly when its
\* name without the first label is, as a whole string, in the allow-list,
\* and is otherwise failed as out of scope; a name with two labels in front
\* of an allow-listed domain, or equal to an allow-listed domain, is out of
\* scope unless what is left after its first label is itself allow-listed.
C2_ScopeRule ==
  \A r \in Res :
    SupportedCall(r) =>
      /\ IF FirstLabelRemoved(received[r].name) \in config.dns_domains
         THEN TakenInScope(r) ELSE OutOfScopeNow(r)
      /\ ( /\ TwoLabelsInFront(received[r].name) \/ received[r].name \in config.dns_domains
           /\ FirstLabelRemoved(received[r].name) \notin config.dns_domains )
           => OutOfScopeNow(r)

\* Both sides of the rule at a name with two labels in front of a domain:
\* x.h.d is looked up under the allow-list {d, h.d}.
C2_Witness ==
  \E r \in Res :
    /\ pc[r] = "store"
    /\ TwoLabelsInFront(received[r].name)
    /\ Len(storeCalls[r]) = 1

\* C3: an in-scope query whose lookup returns zero rows fails with the
\* resolver's DomainError ("No such domain"); no record is built and the
\* upstream resolver is not called.
C3_NoSuchDomain ==
  \A r \in Res :
    (entry[r].state = "ok" /\ Len(entry[r].rows) = 0) =>
      /\ pc[r] = "done"
      /\ promise[r] = Failed(DomainError)
      /\ log[r] = <<"{data}: No such domain">>
      /\ upstreamCalls[r] = <<>>
      /\ upstreamEntry[r] = NoDeferred

C3_Witness ==
  \E r \in Res :
    /\ entry[r].state = "ok" /\ Len(entry[r].rows) = 0
    /\ received[r].type = "AAAA"
    /\ promise[r].state = "failed"

\* C4: a type A query whose stored value is an IPv4 literal succeeds with
\* empty answers and additional lists and exactly one authority record: of
\* type A, named as the query was, with the stored literal as address and
\* the configured ttl.
C4_LiteralA ==
  \A r \in Res :
    (HasValue(r) /\ received[r].type = "A" /\ IPv4Address(StoredValue(r)).ok) =>
      /\ pc[r] = "done"
      /\ promise[r].state = "ok"
      /\ promise[r].value.answers = <<>>
      /\ promise[r].value.additional = <<>>
      /\ Len(promise[r].value.authority) = 1
      /\ promise[r].value.authority[1].name = received[r].name
      /\ promise[r].value.authority[1].payload.record = "Record_A"
      /\ promise[r].value.authority[1].payload.address = StoredValue(r)
      /\ promise[r].value.authority[1].ttl = config.dns_ttl
      /\ upstreamCalls[r] = <<>>

C4_Witness ==
  \E r \in Res :
    /\ HasValue(r) /\ received[r].type = "A"
    /\ StoredValue(r) = <<"2", "0", "3", ".", "0", ".", "1", "1", "3", ".", "5">>
    /\ promise[r].state = "ok"
    /\ config.dns_ttl = 300

\* C5: a stored IP literal of the other family than the query type (IPv4
\* with AAAA or A6, IPv6 with A) fails with the resolver's DomainError
\* ("Mismatched address and query"): no record, no upstream call.
C5_Mismatch ==
  \A r \in Res :
    ( /\ HasValue(r)
      /\ ip_address(StoredValue(r)).ok
      /\ \/ ip_address(StoredValue(r)).version = 4 /\ received[r].type \in {"AAAA", "A6"}
         \/ ip_address(StoredValue(r)).version = 6 /\ received[r].type = "A" ) =>
      /\ pc[r] = "done"
      /\ promise[r] = Failed(DomainError)
      /\ log[r] = <<"SQL query result: {data}", "Mismatched address and query">>
      /\ upstreamCalls[r] = <<>>
      /\ upstreamEntry[r] = NoDeferred

C5_Witness ==
  \E r \in Res :
    /\ HasValue(r)
    /\ ip_address(StoredValue(r)).ok /\ ip_address(StoredValue(r)).version = 6
    /\ received[r].type = "A"
    /\ promise[r].state = "failed"

\* C6: a stored value that is no IP literal makes exactly one upstream call,
\* for the stored value as name and the original type and class; when the
\* upstream call succeeds, the caller gets its answers, authority and
\* additional lists as they are.
C6_Alias ==
  \A r \in Res :
    (HasValue(r) /\ ~ip_address(StoredValue(r)).ok) =>
      /\ Len(upstreamCalls[r]) = 1
      /\ upstreamCalls[r][1].query.name = StoredValue(r)
      /\ upstreamCalls[r][1].query.type = received[r].type
      /\ upstreamCalls[r][1].query.cls = received[r].cls
      /\ pc[r] \in {"upstream", "done"}
      /\ (upstreamEntry[r].state = "ok" =>
            promise[r].state = "ok" /\ promise[r].value = upstreamEntry[r].value)

\* An alias that itself lies under an allow-listed domain was resolved upstream.
C6_Witness ==
  \E r \in Res :
    /\ HasValue(r)
    /\ StoredValue(r) = <<"h", ".", "d">>
    /\ <<"d">> \in config.dns_domains
    /\ received[r].cls = "CH"
    /\ upstreamEntry[r].state = "ok"
    /\ Len(upstreamEntry[r].value.answers) = 2
    /\ promise[r].state = "ok"

\* C7: when the upstream call fails or times out, the caller gets that very
\* failure.
C7_UpstreamFailure ==
  \A r \in Res :
    upstreamEntry[r].state = "failed" =>
      /\ pc[r] = "done"
      /\ promise[r].state = "failed"
      /\ promise[r].failure = upstreamEntry[r].failure

C7_Witness ==
  \E r \in Res :
    /\ upstreamEntry[r].state = "failed"
    /\ upstreamEntry[r].failure.type = "DNSQueryTimeoutError"
    /\ promise[r].state = "failed"

\* C8: when the store lookup fails, the caller gets the store's failure; one
\* lookup was made, no record was built and the upstream resolver was not
\* called.
C8_StoreFailure ==
  \A r \in Res :
    entry[r].state = "failed" =>
      /\ pc[r] = "done"
      /\ promise[r] = Failed(entry[r].failure)
      /\ entry[r].failure.origin = "store"
      /\ Len(storeCalls[r]) = 1
      /\ log[r] = <<"SQL query failed">>
      /\ upstreamCalls[r] = <<>>
      /\ upstreamEntry[r] = NoDeferred

C8_Witness ==
  \E r \in Res :
    /\ entry[r].state = "failed"
    /\ entry[r].failure.type = "ConnectionLost"
    /\ promise[r].state = "failed"

(***************************************************************************)
(* Properties of resolutions in flight together, checked under Spec and    *)
(* FairSpec.                                                               *)
(***************************************************************************)
Fired(r) == promise[r].state \in {"ok", "failed"}

Slot(r) == <<pc[r], queries[r], received[r], name[r], promise[r], entry[r],
             upstreamEntry[r], storeCalls[r], upstreamCalls[r], log[r]>>

\* C10: with several resolutions in flight, a step of one resolution (its
\* failure included) changes nothing of any other resolution and leaves the
\* Config alone, and two finished resolutions with the same query, the same
\* store result and the same upstream result have the same outcome.
C10_Independent ==
  /\ [][ /\ config' = config
         /\ \E r \in Res : \A s \in Res \ {r} : Slot(s)' = Slot(s) ]_vars
  /\ [](\A r, s \in Res :
          ( /\ pc[r] = "done" /\ pc[s] = "done"
            /\ received[r] = received[s]
            /\ entry[r] = entry[s]
            /\ upstreamEntry[r] = upstreamEntry[s] ) => promise[r] = promise[s])

\* Two resolutions of the same query were waiting for the store together;
\* one failed there and the other went on to succeed.
C10_Witness ==
  \E r, s \in Res :
    /\ r # s
    /\ received[r] = received[s]
    /\ entry[r].state = "failed" /\ promise[r].state = "failed"
    /\ entry[s].state = "ok" /\ promise[s].state = "ok"

(***************************************************************************)
(* Which calls a resolution makes, and when.                               *)
(***************************************************************************)
\* C11: a store call exists for a resolution only if its query has type A,
\* AAAA or A6 and its name without the first label is in the allow-list; any
\* other query is failed with no store call and no upstream call.  For an
\* in-scope query exactly one lookup is made, the configured statement with
\* the original query name as its only parameter.
C11_StoreOnlyInScope ==
  \A r \in Res :
    Called(r) =>
      IF /\ received[r].type \in {"A", "AAAA", "A6"}
         /\ FirstLabelRemoved(received[r].name) \in config.dns_domains
      THEN /\ Len(storeCalls[r]) = 1
           /\ storeCalls[r][1].sql = config.db_query
           /\ storeCalls[r][1].args = <<received[r].name>>
           /\ entry[r].state # "none"
      ELSE /\ storeCalls[r] = <<>>
           /\ entry[r] = NoStoreCall
           /\ upstreamCalls[r] = <<>>
           /\ pc[r] = "done"
           /\ promise[r].state = "failed"

\* An in-scope lookup is still out for d.h.d after the query was made, and
\* its parameter is that name.
C11_Witness ==
  \E r \in Res :
    /\ pc[r] = "store"
    /\ received[r].name = <<"d", ".", "h", ".", "d">>
    /\ received[r].type = "A6"
    /\ storeCalls[r] = <<[sql |-> DefaultDbQuery, args |-> << <<"d", ".", "h", ".", "d">> >>]>>

V6Literal(r) ==
  /\ HasValue(r)
  /\ ip_address(StoredValue(r)).ok
  /\ ip_address(StoredValue(r)).version = 6
  /\ received[r].type \in {"AAAA", "A6"}
\* The answer of call r is one authority record of the class that mirrors
\* the query type, named as the query was, with the configured ttl.
V6RecordShape(r) ==
  /\ pc[r] = "done"
  /\ promise[r].state = "ok"
  /\ promise[r].value.answers = <<>>
  /\ promise[r].value.additional = <<>>
  /\ Len(promise[r].value.authority) = 1
  /\ promise[r].value.authority[1].name = received[r].name
  /\ promise[r].value.authority[1].payload.record =
       (IF received[r].type = "AAAA" THEN "Record_AAAA" ELSE "Record_A6")
  /\ promise[r].value.authority[1].ttl = config.dns_ttl

C15_StalledUpstreamFails ==
  /\ [](\A r \in Res : \A i \in 1..Len(upstreamCalls[r]) :
          upstreamCalls[r][i].timeout = <<3, 3, 3>>)
  /\ \A r \in Res :
       (pc[r] = "upstream") ~> (promise[r].state = "failed" /\ promise[r].failure.origin = "upstream")

\* A delegation made with (3, 3, 3) ran out of time and the caller got the
\* timeout failure.
C15_Witness ==
  \E r \in Res :
    /\ pc[r] = "done"
    /\ Len(upstreamCalls[r]) = 1
    /\ upstreamCalls[r][1].timeout = <<3, 3, 3>>
    /\ upstreamEntry[r] = Failed(MkFailure("DNSQueryTimeoutError", "upstream"))
    /\ promise[r] = upstreamEntry[r]

(***************************************************************************)
(* The order of the server's resolver chain, checked under ChainSpec.      *)
(***************************************************************************)
IsPrefix(s, t) == Len(s) <= Len(t) /\ \A i \in 1..Len(s) : s[i] = t[i]

\* C16: the resolvers are consulted in the order hosts file, dynamic
\* resolver, cache, network client, each one only after every earlier one
\* failed: what a request has consulted so far is a prefix of that order, and
\* a request fails only after all four were consulted.
C16_AsStated ==
  \A r \in Res :
    /\ IsPrefix(chain[r].consulted, <<"hosts", "dynamic", "cache", "network">>)
    /\ chain[r].state = "failed" /\ promise[r].failure.type \in Trapped \cup {"none"}
         => chain[r].consulted = <<"hosts", "dynamic", "cache", "network">>

\* What the chain built by main does: the cache is consulted first, then the
\* hosts file, then the dynamic resolver, and nothing after it; the network
\* client is called by the dynamic resolver alone, for an alias.
C16_AsBuilt ==
  \A r \in Res :
    /\ IsPrefix(chain[r].consulted, <<"cache", "hosts", "dynamic">>)
    /\ chain[r].state = "failed" /\ promise[r].failure.type \in Trapped \cup {"none"}
         => chain[r].consulted = <<"cache", "hosts", "dynamic">>
    /\ upstreamCalls[r] # <<>> => entry[r].state = "ok" /\ ip_address(StoredValue(r)) = NotAnAddress

\* An out-of-scope request missed the cache and the hosts file, was refused
\* by the dynamic resolver, and failed without the network client being asked.
C16_FailedWithoutNetwork ==
  \E r \in Res :
    /\ chain[r].state = "failed"
    /\ chain[r].consulted = <<"cache", "hosts", "dynamic">>
    /\ promise[r] = UnsupportedOutcome
    /\ upstreamCalls[r] = <<>>

(***************************************************************************)
(* The promise of one call, checked under Spec.                            *)
(***************************************************************************)
\* C17: the promise of one call is completed at most once: while the call
\* waits for the store or for the upstream resolver its promise has not
\* fired, a finished call's promise has fired, and no step changes a promise
\* that has fired: the only thing that follows is the next call's new promise.
C17_CompletedOnce ==
  /\ [](\A r \in Res :
          /\ pc[r] \in {"store", "upstream"} => promise[r] = Pending
          /\ pc[r] = "done" => Fired(r))
  /\ [][\A r \in Res :
          Fired(r) => promise'[r] = promise[r] \/ (pc'[r] = "idle" /\ promise'[r] = NoDeferred)]_vars

\* Two calls have finished: one whose promise was fired through the chained
\* upstream result, one whose promise was fired by the store's failure.
C17_Witness ==
  \E r, s \in Res :
    /\ pc[r] = "done" /\ pc[s] = "done"
    /\ entry[r].state = "ok" /\ upstreamEntry[r].state = "ok" /\ promise[r] = upstreamEntry[r]
    /\ entry[s].state = "failed" /\ upstreamEntry[s] = NoDeferred /\ promise[s].state = "failed"

(***************************************************************************)
(* The calls one resolution makes, checked under SpecSeq.                  *)
(***************************************************************************)
\* C18: one call makes at most one store lookup and at most one upstream
\* call; every store lookup is for the name the call received, never for the
\* alias, also when the stored alias is the queried name itself; and once
\* the upstream call is made the store is not waited for again.
C18_OneLookupOneDelegation ==
  \A r \in Res :
    /\ Len(storeCalls[r]) <= 1
    /\ Len(upstreamCalls[r]) <= 1
    /\ \A i \in 1..Len(storeCalls[r]) : storeCalls[r][i].args = <<received[r].name>>
    /\ upstreamCalls[r] # <<>> => entry[r].state = "ok" /\ pc[r] \in {"upstream", "done"}

\* The store maps h.d to h.d, a cycle of aliases: the call made one lookup,
\* handed h.d to the upstream resolver once, and ended.
C18_Witness ==
  \E r \in Res :
    /\ pc[r] = "done"
    /\ received[r].name = <<"h", ".", "d">>
    /\ HasValue(r) /\ StoredValue(r) = <<"h", ".", "d">>
    /\ Len(storeCalls[r]) = 1
    /\ Len(upstreamCalls[r]) = 1
    /\ upstreamCalls[r][1].query.name = <<"h", ".", "d">>
    /\ Fired(r)

=============================================================================
